---- MODULE Spec2Model ----
(***************************************************************************)
(* Model of the dolista-safado Telegram webhook (src/handler.go).          *)
(*                                                                         *)
(* Strings are sequences of one-character strings, so that HasPrefix,      *)
(* Split, Join and the formatting of numbers are computed, not assumed.    *)
(* Time is counted in ticks; a minute is TicksPerMinute ticks, so that     *)
(* the flooring done by makeTimeAgoString is visible.                      *)
(*                                                                         *)
(* One HandleMessage step is one whole webhook request.  The outcomes of   *)
(* the collaborators the code does not control (request/config decoding,   *)
(* the Firestore client, iterator errors, delete errors, write errors,     *)
(* the order in which the query returns documents) are inputs of the step. *)
(* What the request did (its locals and its calls) stays observable until  *)
(* the Respond step, after which the webhook is idle again; nothing but    *)
(* the datastore outlives a request.                                       *)
(*                                                                         *)
(* A second specification, Concurrent, serves two requests at once: there  *)
(* a request advances one datastore call at a time (Begin, Route, the      *)
(* calls of iter.Next, the return with its deferred Close), its locals     *)
(* kept in reqs, so that the calls of the two requests interleave.  Spec   *)
(* leaves reqs alone and Concurrent leaves the variables of the atomic     *)
(* request alone; both work on the same store and clock.                   *)
(***************************************************************************)
EXTENDS Integers, Sequences, FiniteSets, TLC

VARIABLES
    now,      \* the datastore server's clock, in ticks
    ticks,    \* number of clock advances so far (bounds the model)
    store,    \* collection "summary": set of documents
    nextId,   \* next document id handed out by Add
    served,   \* TRUE from the end of a request until its response is out
    update,   \* the request's inbound Update: [text, chatID]
    env,      \* what the collaborators did during the request
    ran,      \* handlers run by the request, in order
    outbox,   \* sendMessage calls of the request, in order
    before,   \* the store when the request started
    docs,     \* handleResumo's docs slice when the request ended
    reqs,     \* the requests in progress at once, statement by statement
    started   \* number of requests begun statement by statement

request == <<update, env, ran, outbox, before, docs>>
stepwise == <<reqs, started>>
vars == <<now, ticks, store, nextId, served, request, stepwise>>

----------------------------------------------------------------------------
(* Bounds of the model *)

TicksPerMinute == 2
MaxTicks == 4
MaxAdds == 2
MaxRequests == 3

(* Program constants *)

MinutesPerHour == 60
ExpiryHours == 24

Minute == TicksPerMinute
Hour == MinutesPerHour * Minute
Expiry == ExpiryHours * Hour

(* The clock advances the model lets happen between requests, in their
   order: the clock reads 0, 45 min, 90 min, one tick less than 24 h, 24 h,
   24 h 45 min, and so on. *)
ClockSteps == <<45 * Minute, 45 * Minute, 1350 * Minute - 1, 1, 45 * Minute>>

(* Conversations (Telegram chat ids; group chats have negative ids). *)
Chats == {-7, 42}

----------------------------------------------------------------------------
(* String literals of the program *)

HelloTrigger == <<"/", "h", "e", "l", "l", "o">>
SafadaTrigger == <<"/", "s", "a", "f", "a", "d", "a">>
ResumoTrigger == <<"/", "r", "e", "s", "u", "m", "o">>
AddTrigger == <<"/", "r">>

HelloReply == <<"h", "e", "l", "l", "o", "!">>
SafadaReply == <<"?", "?", " ", "v", "o", "c", "?", "?", "!">>
ResumoHeader == <<"R", "e", "s", "u", "m", "o", ":", " ", "\n", "\n">>
LineOpen == <<"[", "H", "?", "?", " ">>
LineClose == <<"]", " ">>
MissingReply ==
    <<"S", "a", "f", "a", "d", "o", "!", " ", "C", "a", "d", "?", "?", " ",
      "a", " ", "m", "e", "n", "s", "a", "g", "e", "m", " ", "p", "r", "a",
      " ", "a", "d", "i", "c", "i", "o", "n", "a", "r", " ", "n", "o", " ",
      "r", "e", "s", "u", "m", "o", "?">>
FailedReply ==
    <<"O", "p", "s", "!", " ", "O", " ", "c", "?", "?", "d", "i", "g", "o",
      " ", "d", "o", " ", "C", "a", "i", "o", " ", "n", "?", "?", "o", " ",
      "f", "u", "n", "c", "i", "o", "n", "o", "u", " ", ":", ")">>
AddedPrefix ==
    <<"A", "d", "i", "c", "i", "o", "n", "a", "d", "o", " ", "a", "o", " ",
      "r", "e", "s", "u", "m", "o", ":", " ">>

(* The message texts the model sends to the webhook. *)
Texts ==
    {       <<"/", "x">>,
      HelloTrigger,
      HelloTrigger \o <<" ", "a">>,
      SafadaTrigger,
      ResumoTrigger,
      ResumoTrigger \o <<"X", "Y", "Z">>,
      AddTrigger,
      AddTrigger \o <<" ">>,
      AddTrigger \o <<" ", "a", " ", "b">>,
      AddTrigger \o <<" ", "a", "\n", "b">>,
      AddTrigger \o <<"x", " ", "a", " ", "b">> }

----------------------------------------------------------------------------
(* Library functions the program calls *)

\* strings.HasPrefix
HasPrefix(s, prefix) ==
    /\ Len(s) >= Len(prefix)
    /\ SubSeq(s, 1, Len(prefix)) = prefix

\* strings.Split(s, sep) for a one-character separator: every occurrence of
\* sep cuts, so consecutive separators give empty fields, and a string
\* without the separator gives one field.
RECURSIVE Split(_, _)
Split(s, sep) ==
    IF \A i \in 1..Len(s) : s[i] # sep
    THEN <<s>>
    ELSE LET i == CHOOSE k \in 1..Len(s) :
                     /\ s[k] = sep
                     /\ \A j \in 1..(k - 1) : s[j] # sep
         IN  <<SubSeq(s, 1, i - 1)>> \o Split(SubSeq(s, i + 1, Len(s)), sep)

\* strings.Join
RECURSIVE Join(_, _)
Join(elems, sep) ==
    IF elems = <<>> THEN <<>>
    ELSE IF Len(elems) = 1 THEN elems[1]
    ELSE elems[1] \o sep \o Join(Tail(elems), sep)

Digit(d) == <<"0", "1", "2", "3", "4", "5", "6", "7", "8", "9">>[d + 1]

\* fmt's %.0f of a float that math.Floor made a non-negative whole number
RECURSIVE FormatFloat0(_)
FormatFloat0(n) ==
    IF n < 10 THEN <<Digit(n)>>
    ELSE FormatFloat0(n \div 10) \o <<Digit(n % 10)>>

\* strconv.Itoa
Itoa(n) == IF n < 0 THEN <<"-">> \o FormatFloat0(-n) ELSE FormatFloat0(n)

----------------------------------------------------------------------------
(* The datastore *)

\* A query without the equality filter
WhereUnscoped(st, chatID) == st

\* client.Collection("summary").Where("ChatID", "==", chatID)
Where(st, chatID) == {d \in st : d.ChatID = chatID}

\* The snapshot of a document returned by a query that reads at readTime.
Snapshot(d, readTime) ==
    [id |-> d.id, ChatID |-> d.ChatID, Message |-> d.Message,
     CreateTime |-> d.CreateTime, ReadTime |-> readTime]

\* Query.Documents: the snapshots of the matching documents
Documents(st, chatID, readTime) ==
    {Snapshot(d, readTime) : d \in Where(st, chatID)}

\* The orders in which the iterator may hand out the snapshots of S.
Orders(S) ==
    {o \in [1..Cardinality(S) -> S] :
        \A i, j \in 1..Cardinality(S) : o[i] = o[j] => i = j}

----------------------------------------------------------------------------
(* The program *)

\* sendMessage: one POST to the sendMessage endpoint, with its form fields
sendMessage(chatID, message) == [chat_id |-> Itoa(chatID), text |-> message]

\* makeTimeAgoString without the math.Mod: the minutes are not reduced
makeTimeAgoStringNoMod(timeAgo) ==
    LET hoursAgo == timeAgo \div Hour
        minutesAgo == timeAgo \div Minute
    IN  IF hoursAgo = 0
        THEN FormatFloat0(minutesAgo) \o <<"m", "i", "n">>
        ELSE FormatFloat0(hoursAgo) \o <<"h">>
                 \o FormatFloat0(minutesAgo) \o <<"m", "i", "n">>

\* makeTimeAgoString; timeAgo is a duration in ticks
makeTimeAgoString(timeAgo) ==
    LET hoursAgo == timeAgo \div Hour
        minutesAgo == (timeAgo % (MinutesPerHour * Minute)) \div Minute
    IN  IF hoursAgo = 0
        THEN FormatFloat0(minutesAgo) \o <<"m", "i", "n">>
        ELSE FormatFloat0(hoursAgo) \o <<"h">>
                 \o FormatFloat0(minutesAgo) \o <<"m", "i", "n">>

\* A Less with After in the place of Before
LessAfter(a, b) == a.CreateTime > b.CreateTime

\* ByCreatedDate.Less on two snapshots
Less(a, b) == a.CreateTime < b.CreateTime

\* Insert d into the sorted sequence s, after the elements that are not
\* greater than d.
RECURSIVE Insert(_, _)
Insert(s, d) ==
    IF s = <<>> THEN <<d>>
    ELSE IF Less(d, s[Len(s)])
         THEN Append(Insert(SubSeq(s, 1, Len(s) - 1), d), s[Len(s)])
         ELSE Append(s, d)

\* sort.Sort(ByCreatedDate(docs)).  sort.Sort is not stable; every order of
\* equal elements it can give is reached here because the iterator hands
\* out the documents in every order.
RECURSIVE SortByCreatedDate(_)
SortByCreatedDate(s) ==
    IF s = <<>> THEN <<>>
    ELSE Insert(SortByCreatedDate(SubSeq(s, 1, Len(s) - 1)), s[Len(s)])

\* An expiry test that lets the entry of exactly 24 hours live
IsExpiredStrict(doc) == doc.ReadTime - doc.CreateTime > Expiry

\* An expiry test that reads the age in minutes
IsExpiredMinutes(doc) == doc.ReadTime - doc.CreateTime >= ExpiryHours * Minute

\* The condition of the expiry branch of handleResumo
IsExpired(doc) == doc.ReadTime - doc.CreateTime >= Expiry

\* A loop that keeps in docs the expired document whose Delete failed
RECURSIVE IterateKeepUndeleted(_, _, _, _, _)
IterateKeepUndeleted(order, i, errAt, delOK, acc) ==
    IF i = errAt THEN [acc EXCEPT !.err = TRUE]
    ELSE IF i > Len(order) THEN acc
    ELSE LET doc == order[i] IN
         IF IsExpired(doc) /\ doc.id \in delOK
         THEN IterateKeepUndeleted(order, i + 1, errAt, delOK,
                  [acc EXCEPT !.deleted = @ \cup {doc.id}])
         ELSE IterateKeepUndeleted(order, i + 1, errAt, delOK,
                  [acc EXCEPT !.docs = Append(@, doc)])

\* The first loop of handleResumo from the i-th call of iter.Next on.
\*   errAt   the call of iter.Next that returns an error (0: none does)
\*   delOK   the ids of the documents whose Delete, if called, succeeds
\*   acc     docs kept so far, ids deleted so far, whether the loop failed
RECURSIVE Iterate(_, _, _, _, _)
Iterate(order, i, errAt, delOK, acc) ==
    IF i = errAt THEN [acc EXCEPT !.err = TRUE]
    ELSE IF i > Len(order) THEN acc
    ELSE LET doc == order[i] IN
         IF IsExpired(doc)
         THEN Iterate(order, i + 1, errAt, delOK,
                  [acc EXCEPT !.deleted =
                       IF doc.id \in delOK THEN @ \cup {doc.id} ELSE @])
         ELSE Iterate(order, i + 1, errAt, delOK,
                  [acc EXCEPT !.docs = Append(@, doc)])

\* One line of the digest
FormatLine(doc) ==
    LineOpen \o makeTimeAgoString(doc.ReadTime - doc.CreateTime)
        \o LineClose \o doc.Message

\* The result of a handler: the store and the id counter it leaves, the
\* sendMessage calls it made, and the docs slice (handleResumo only).
Result(st, id, sent, ds) ==
    [store |-> st, nextId |-> id, outbox |-> sent, docs |-> ds]

\* A handleHello that greets with the text that follows the trigger
handleHelloEcho(chatID, message, st, id) ==
    Result(st, id,
           <<sendMessage(chatID,
                 HelloReply \o SubSeq(message, Len(HelloTrigger) + 1,
                                      Len(message)))>>, <<>>)

handleHello(chatID, message, st, id) ==
    Result(st, id, <<sendMessage(chatID, HelloReply)>>, <<>>)

handleSafada(chatID, message, st, id) ==
    Result(st, id, <<sendMessage(chatID, SafadaReply)>>, <<>>)

\* handleResumo leaving its loop on an iterator error with a break: the
\* digest of the documents read so far is sent
handleResumoBreak(chatID, st, id, e) ==
    LET loop == Iterate(e.order, 1, e.errAt, e.delOK,
                        [docs |-> <<>>, deleted |-> {}, err |-> FALSE])
        left == {d \in st : d.id \notin loop.deleted}
        sorted == SortByCreatedDate(loop.docs)
        msgs == [i \in 1..Len(sorted) |-> FormatLine(sorted[i])]
        resumo == Join(msgs, <<"\n">>)
    IN  Result(left, id,
               <<sendMessage(chatID, ResumoHeader \o resumo)>>, sorted)

\* handleResumo; e.order is the order of iteration, e.errAt and e.delOK as
\* in Iterate
handleResumo(chatID, st, id, e) ==
    LET loop == Iterate(e.order, 1, e.errAt, e.delOK,
                        [docs |-> <<>>, deleted |-> {}, err |-> FALSE])
        left == {d \in st : d.id \notin loop.deleted}
        sorted == SortByCreatedDate(loop.docs)
        msgs == [i \in 1..Len(sorted) |-> FormatLine(sorted[i])]
        resumo == Join(msgs, <<"\n">>)
    IN  IF loop.err
        THEN Result(left, id, <<>>, loop.docs)
        ELSE Result(left, id,
                    <<sendMessage(chatID, ResumoHeader \o resumo)>>, sorted)

\* handleAddResumo without the return that follows the failure reply
handleAddResumoNoReturn(chatID, message, st, id, e, clock) ==
    LET split == Split(message, " ")
        newEntry == Join(Tail(split), <<" ">>)
        added == [id |-> id, ChatID |-> chatID, Message |-> newEntry,
                  CreateTime |-> clock]
    IN  IF Len(split) = 1
        THEN Result(st, id, <<sendMessage(chatID, MissingReply)>>, <<>>)
        ELSE IF ~e.addOK
        THEN Result(st, id,
                    <<sendMessage(chatID, FailedReply),
                      sendMessage(chatID, AddedPrefix \o newEntry)>>, <<>>)
        ELSE Result(st \cup {added}, id + 1,
                    <<sendMessage(chatID, AddedPrefix \o newEntry)>>, <<>>)

\* handleAddResumo writing with Set on a document of the conversation: an
\* entry the conversation has already is overwritten in place
handleAddResumoSet(chatID, message, st, id, e, clock) ==
    LET split == Split(message, " ")
        newEntry == Join(Tail(split), <<" ">>)
        added == [id |-> id, ChatID |-> chatID, Message |-> newEntry,
                  CreateTime |-> clock]
        old == Where(st, chatID)
        o == CHOOSE d \in old : TRUE
    IN  IF Len(split) = 1
        THEN Result(st, id, <<sendMessage(chatID, MissingReply)>>, <<>>)
        ELSE IF ~e.addOK
        THEN Result(st, id, <<sendMessage(chatID, FailedReply)>>, <<>>)
        ELSE IF old # {}
        THEN Result((st \ {o}) \cup {[o EXCEPT !.Message = newEntry]}, id,
                    <<sendMessage(chatID, AddedPrefix \o newEntry)>>, <<>>)
        ELSE Result(st \cup {added}, id + 1,
                    <<sendMessage(chatID, AddedPrefix \o newEntry)>>, <<>>)

\* handleAddResumo; e.addOK tells whether the Add succeeds, clock is the
\* server time that becomes the document's CreateTime
handleAddResumo(chatID, message, st, id, e, clock) ==
    LET split == Split(message, " ")
        newEntry == Join(Tail(split), <<" ">>)
        added == [id |-> id, ChatID |-> chatID, Message |-> newEntry,
                  CreateTime |-> clock]
    IN  IF Len(split) = 1
        THEN Result(st, id, <<sendMessage(chatID, MissingReply)>>, <<>>)
        ELSE IF ~e.addOK
        THEN Result(st, id, <<sendMessage(chatID, FailedReply)>>, <<>>)
        ELSE Result(st \cup {added}, id + 1,
                    <<sendMessage(chatID, AddedPrefix \o newEntry)>>, <<>>)

\* The prefix checks with /r tried before /resumo
DispatchAddFirst(text) ==
    IF HasPrefix(text, HelloTrigger) THEN <<"handleHello">>
    ELSE IF HasPrefix(text, SafadaTrigger) THEN <<"handleSafada">>
    ELSE IF HasPrefix(text, AddTrigger) THEN <<"handleAddResumo">>
    ELSE IF HasPrefix(text, ResumoTrigger) THEN <<"handleResumo">>
    ELSE <<>>

\* The prefix checks ending in a default branch that greets
DispatchDefault(text) ==
    IF HasPrefix(text, HelloTrigger) THEN <<"handleHello">>
    ELSE IF HasPrefix(text, SafadaTrigger) THEN <<"handleSafada">>
    ELSE IF HasPrefix(text, ResumoTrigger) THEN <<"handleResumo">>
    ELSE IF HasPrefix(text, AddTrigger) THEN <<"handleAddResumo">>
    ELSE <<"handleHello">>

\* The prefix checks of HandleMessage, in their order: the handlers run
Dispatch(text) ==
    IF HasPrefix(text, HelloTrigger) THEN <<"handleHello">>
    ELSE IF HasPrefix(text, SafadaTrigger) THEN <<"handleSafada">>
    ELSE IF HasPrefix(text, ResumoTrigger) THEN <<"handleResumo">>
    ELSE IF HasPrefix(text, AddTrigger) THEN <<"handleAddResumo">>
    ELSE <<>>

\* The handlers HandleMessage runs for the update u under environment e
Handlers(u, e) == IF e.setup = "ok" THEN Dispatch(u.text) ELSE <<>>

\* The body of HandleMessage: the result of the request
Serve(u, e, st, id, clock) ==
    LET hs == Handlers(u, e) IN
    IF hs = <<>> THEN Result(st, id, <<>>, <<>>)
    ELSE IF hs[1] = "handleHello" THEN handleHello(u.chatID, u.text, st, id)
    ELSE IF hs[1] = "handleSafada" THEN handleSafada(u.chatID, u.text, st, id)
    ELSE IF hs[1] = "handleResumo" THEN handleResumo(u.chatID, st, id, e)
    ELSE handleAddResumo(u.chatID, u.text, st, id, e, clock)

\* The ids of the documents on which handleResumo calls Delete when the
\* iterator hands them out in this order and its errAt-th call fails
DeleteCalls(order, errAt) ==
    {order[i].id : i \in {j \in 1..Len(order) :
                             /\ errAt = 0 \/ j < errAt
                             /\ IsExpired(order[j])}}

\* What the collaborators may do during a request for update u:
\*   setup   where the set-up of HandleMessage stops: "decode" when the
\*           body does not decode, "config" when APP_CONFIG does not
\*           decode or parse or the Firebase app or the Firestore client
\*           cannot be created (all return before a client is held),
\*           "ok" when the set-up succeeds
\*   addOK   whether the Add of handleAddResumo succeeds
\*   order, errAt, delOK   the iteration of handleResumo; delOK tells the
\*           outcome of the Delete calls that are made
NoIteration(setup, addOK) ==
    [setup |-> setup, addOK |-> addOK, order |-> <<>>, errAt |-> 0,
     delOK |-> {}]

Envs(u, st, clock) ==
    LET hs == Dispatch(u.text) IN
    {NoIteration("config", TRUE)}
    \cup
    (IF hs = <<"handleResumo">>
     THEN UNION {
              {[setup |-> "ok", addOK |-> TRUE, order |-> o, errAt |-> k,
                delOK |-> ok] : ok \in SUBSET DeleteCalls(o, k)} :
                  o \in Orders(Documents(st, u.chatID, clock)),
                  k \in 0..(Cardinality(Where(st, u.chatID)) + 1)}
     ELSE IF hs = <<"handleAddResumo">> /\ Len(Split(u.text, " ")) > 1
     THEN {NoIteration("ok", b) : b \in BOOLEAN}
     ELSE {NoIteration("ok", TRUE)})

----------------------------------------------------------------------------
(* The state machine *)

\* The zero value of Update: what reqBody holds when the body did not decode
NoUpdate == [text |-> <<>>, chatID |-> 0]

\* The updates the model sends to the webhook
Updates == [text : Texts, chatID : Chats]

\* The instances of the function the platform runs at once
Instances == {1, 2}

\* The locals of an instance that is serving no request:
\*   pc       "idle", "dispatch" (set-up done, before the prefix checks),
\*            "iterating" (in the first loop of handleResumo), "deferred"
\*            (HandleMessage returns, its deferred call is pending), "done"
\*   client   "none", "open" or "closed": the Firestore client
\*   iter     the snapshots the iterator has yet to hand out
\*   err      whether iter.Next returned an error
NoRequest ==
    [pc |-> "idle", update |-> NoUpdate, client |-> "none", ran |-> <<>>,
     iter |-> <<>>, docs |-> <<>>, outbox |-> <<>>, err |-> FALSE]

Idle ==
    /\ served = FALSE
    /\ update = NoUpdate
    /\ env = NoIteration("ok", TRUE)
    /\ ran = <<>>
    /\ outbox = <<>>
    /\ before = {}
    /\ docs = <<>>

Init ==
    /\ now = 0
    /\ ticks = 0
    /\ store = {}
    /\ nextId = 1
    /\ Idle
    /\ reqs = [p \in Instances |-> NoRequest]
    /\ started = 0

\* One request: HandleMessage from its first line to its return
HandleMessage(u, e) ==
    /\ ~served
    /\ \E r \in {Serve(u, e, store, nextId, now)} :
          /\ r.nextId <= MaxAdds + 1
          /\ served' = TRUE
          /\ update' = u
          /\ env' = e
          /\ ran' = Handlers(u, e)
          /\ before' = store
          /\ store' = r.store
          /\ nextId' = r.nextId
          /\ outbox' = r.outbox
          /\ docs' = r.docs
    /\ UNCHANGED <<now, ticks, stepwise>>

\* The response of the request goes out and its locals are gone
Respond ==
    /\ served
    /\ served' = FALSE
    /\ update' = NoUpdate
    /\ env' = NoIteration("ok", TRUE)
    /\ ran' = <<>>
    /\ outbox' = <<>>
    /\ before' = {}
    /\ docs' = <<>>
    /\ UNCHANGED <<now, ticks, store, nextId, stepwise>>

\* Time passes between requests
Tick ==
    /\ ~served
    /\ ticks < MaxTicks
    /\ now' = now + ClockSteps[(ticks % Len(ClockSteps)) + 1]
    /\ ticks' = ticks + 1
    /\ UNCHANGED <<store, nextId, served, request, stepwise>>

\* The platform posts an update whose body decodes
Webhook ==
    /\ ~served
    /\ \E u \in Updates : \E e \in Envs(u, store, now) : HandleMessage(u, e)

\* The platform posts a body that does not decode
WebhookMalformed == HandleMessage(NoUpdate, NoIteration("decode", TRUE))

Next ==
    \/ Webhook
    \/ WebhookMalformed
    \/ Respond
    \/ Tick

Spec == Init /\ [][Next]_vars

----------------------------------------------------------------------------
(* Requests served at once.  The platform may run several instances of the
   function at the same time; they share nothing but the datastore, every
   variable of HandleMessage being a local.  Here a request advances one
   datastore call at a time, so that the calls of two requests interleave
   in every way. *)

\* The message texts sent to the instances
ConcurrentTexts ==
    { <<"/", "x">>,
      ResumoTrigger,
      AddTrigger \o <<" ", "a", " ", "b">> }

ConcurrentUpdates == [text : ConcurrentTexts, chatID : Chats]

\* A reqBody that is a variable of the package: every instance reads the
\* update that arrived last
reqBodyShared(rs, p) ==
    IF \E q \in Instances \ {p} : rs[q].pc \notin {"idle", "done"}
    THEN rs[CHOOSE q \in Instances \ {p} :
                rs[q].pc \notin {"idle", "done"}].update
    ELSE rs[p].update

\* reqBody, the variable of HandleMessage that holds the decoded update
reqBody(rs, p) == rs[p].update

\* A return of HandleMessage with no deferred call
ReturnNoDefer(r) == [NoRequest EXCEPT !.pc = "done", !.client = r.client]

\* The return of HandleMessage once the client is held: the deferred
\* client.Close runs, and the locals are gone
Return(r) == [NoRequest EXCEPT !.pc = "done", !.client = "closed"]

\* A DataTo that reads the document again, and fails when it is gone
DataToReread(st, doc) ==
    IF \E d \in st : d.id = doc.id
    THEN [ok |-> TRUE,
          item |-> [ChatID |-> doc.ChatID, Message |-> doc.Message]]
    ELSE [ok |-> FALSE, item |-> [ChatID |-> 0, Message |-> <<>>]]

\* doc.DataTo(&item): the SummaryItem is filled from the data the snapshot
\* carries; the datastore st is not read
DataTo(st, doc) ==
    [ok |-> TRUE, item |-> [ChatID |-> doc.ChatID, Message |-> doc.Message]]

\* DocumentRef.Delete: the document of this id is gone afterwards; deleting
\* a document that does not exist is no error
Delete(st, id) == {d \in st : d.id # id}

\* handleResumo from the end of its first loop, which left the slice ds
ResumoReply(chatID, ds) ==
    handleResumo(chatID, {}, 0,
                 [NoIteration("ok", TRUE) EXCEPT !.order = ds])

\* HandleMessage up to the deferred Close: the body and the configuration
\* are decoded and the client is created, or the function returns.  The
\* instances being alike, the request goes to the free one of least number.
Begin(p, u, setup) ==
    /\ ~served
    /\ reqs[p].pc = "idle"
    /\ \A q \in Instances : q < p => reqs[q].pc # "idle"
    /\ started < MaxRequests
    /\ started' = started + 1
    /\ reqs' = [reqs EXCEPT ![p] =
                    IF setup = "ok"
                    THEN [NoRequest EXCEPT !.pc = "dispatch", !.update = u,
                                           !.client = "open"]
                    ELSE [NoRequest EXCEPT !.pc = "done"]]
    /\ UNCHANGED <<now, ticks, store, nextId, served, request>>

\* The prefix checks and the handler they select.  handleResumo stops at
\* its loop, holding the iterator of its query; the other handlers run to
\* their end (they make at most one datastore call).
Route(p, addOK) ==
    /\ reqs[p].pc = "dispatch"
    /\ LET u == reqBody(reqs, p)
           e == NoIteration("ok", addOK)
           hs == Handlers(u, e)
       IN  IF hs = <<"handleResumo">>
           THEN /\ \E o \in Orders(Documents(store, u.chatID, now)) :
                     reqs' = [reqs EXCEPT ![p].pc = "iterating",
                                          ![p].ran = hs,
                                          ![p].iter = o]
                /\ UNCHANGED <<store, nextId>>
           ELSE \E r \in {Serve(u, e, store, nextId, now)} :
                    /\ r.nextId <= MaxAdds + 1
                    /\ store' = r.store
                    /\ nextId' = r.nextId
                    /\ reqs' = [reqs EXCEPT ![p].pc = "deferred",
                                            ![p].ran = hs,
                                            ![p].outbox = r.outbox]
    /\ UNCHANGED <<now, ticks, started, served, request>>

\* iter.Next returns an error: handleResumo returns
IterError(p) ==
    /\ reqs[p].pc = "iterating"
    /\ reqs' = [reqs EXCEPT ![p].pc = "deferred", ![p].err = TRUE]
    /\ UNCHANGED <<now, ticks, store, nextId, started, served, request>>

\* iter.Next returns a document: it is deleted when expired, kept otherwise
IterDoc(p, delOK) ==
    /\ reqs[p].pc = "iterating"
    /\ reqs[p].iter # <<>>
    /\ LET doc == Head(reqs[p].iter) IN
       IF IsExpired(doc)
       THEN /\ store' = IF delOK THEN Delete(store, doc.id) ELSE store
            /\ reqs' = [reqs EXCEPT ![p].iter = Tail(@)]
       ELSE /\ store' = store
            /\ reqs' = [reqs EXCEPT ![p].iter = Tail(@),
                                    ![p].docs = Append(@, doc)]
    /\ UNCHANGED <<now, ticks, nextId, started, served, request>>

\* iter.Next returns iterator.Done: the digest is sorted, built and sent;
\* handleResumo returns without sending when a DataTo fails
IterDone(p) ==
    /\ reqs[p].pc = "iterating"
    /\ reqs[p].iter = <<>>
    /\ LET r == ResumoReply(reqBody(reqs, p).chatID, reqs[p].docs)
           parsed == [i \in 1..Len(r.docs) |-> DataTo(store, r.docs[i])]
       IN  IF \E i \in 1..Len(parsed) : ~parsed[i].ok
           THEN reqs' = [reqs EXCEPT ![p].pc = "deferred",
                                     ![p].docs = r.docs]
           ELSE reqs' = [reqs EXCEPT ![p].pc = "deferred",
                                     ![p].docs = r.docs,
                                     ![p].outbox = r.outbox]
    /\ UNCHANGED <<now, ticks, store, nextId, started, served, request>>

\* HandleMessage returns
Deferred(p) ==
    /\ reqs[p].pc = "deferred"
    /\ reqs' = [reqs EXCEPT ![p] = Return(@)]
    /\ UNCHANGED <<now, ticks, store, nextId, started, served, request>>

\* The response is out; the instance is free for the next request
Complete(p) ==
    /\ reqs[p].pc = "done"
    /\ reqs' = [reqs EXCEPT ![p] = NoRequest]
    /\ UNCHANGED <<now, ticks, store, nextId, started, served, request>>

Arrive == \E p \in Instances, u \in ConcurrentUpdates :
              \E setup \in {"ok", "config"} : Begin(p, u, setup)
Dispatched == \E p \in Instances, addOK \in BOOLEAN : Route(p, addOK)
NextFails == \E p \in Instances : IterError(p)
NextDoc == \E p \in Instances, delOK \in BOOLEAN : IterDoc(p, delOK)
NextDone == \E p \in Instances : IterDone(p)
Returns == \E p \in Instances : Deferred(p)
Completes == \E p \in Instances : Complete(p)

ConcurrentNext ==
    \/ Arrive
    \/ Dispatched
    \/ NextFails
    \/ NextDoc
    \/ NextDone
    \/ Returns
    \/ Completes
    \/ Tick

Concurrent == Init /\ [][ConcurrentNext]_vars

----------------------------------------------------------------------------
(* Vocabulary of the properties *)

\* The request just served ran the digest handler / the append handler
DigestServed == served /\ ran = <<"handleResumo">>
AppendServed == served /\ ran = <<"handleAddResumo">>

\* The digest handler sent its reply
DigestReplied == DigestServed /\ outbox # <<>>

\* Age of the stored document d at the time of the request just served
AgeOf(d) == now - d.CreateTime

\* The documents of the requester that the request found in the store
Mine == {d \in before : d.ChatID = update.chatID}

\* The digest text for the sequence of snapshots ds: the header, then the
\* line of each snapshot, a newline before every line but the first
RECURSIVE DigestOf(_)
DigestOf(ds) ==
    IF ds = <<>> THEN ResumoHeader
    ELSE IF Len(ds) = 1 THEN ResumoHeader \o FormatLine(ds[1])
    ELSE DigestOf(SubSeq(ds, 1, Len(ds) - 1)) \o <<"\n">>
             \o FormatLine(ds[Len(ds)])

----------------------------------------------------------------------------
(* C1: every line of a digest reply requested by conversation B is the line
   of an entry that was stored with conversation_id B; an entry appended
   under another conversation never appears in it. *)
C1_DigestScoped ==
    DigestReplied =>
        /\ outbox[1].text = DigestOf(docs)
        /\ \A i \in 1..Len(docs) :
               \E d \in before :
                   /\ d.ChatID = update.chatID
                   /\ docs[i] = Snapshot(d, now)

\* A digest with a line is replied to B while A has a live entry in the store
C1_Witness ==
    /\ DigestReplied
    /\ Len(docs) >= 1
    /\ \E d \in before : d.ChatID # update.chatID /\ AgeOf(d) < Expiry

(* C2 as stated: after a digest that was produced for conversation C, every
   entry of C aged 24 hours or more is absent from the digest and absent
   from the store. *)
C2_Original ==
    DigestReplied =>
        \A d \in Mine :
            AgeOf(d) >= Expiry =>
                /\ \A i \in 1..Len(docs) : docs[i].id # d.id
                /\ d \notin store

(* C2 amended: no digest ever holds an entry aged 24 hours or more (exactly
   24 hours included), so an expired entry appears in no later digest
   either, the clock never going back; the entry is absent from the store
   after the request when its Delete succeeded, and it is still stored when
   its Delete failed, the handler ignoring the outcome of Delete. *)
C2_ExpiredExcluded ==
    DigestReplied =>
        /\ \A i \in 1..Len(docs) :
               docs[i].ReadTime - docs[i].CreateTime < Expiry
        /\ \A d \in Mine :
               AgeOf(d) >= Expiry =>
                   /\ \A i \in 1..Len(docs) : docs[i].id # d.id
                   /\ d.id \in env.delOK => d \notin store
                   /\ d.id \notin env.delOK => d \in store

\* A digest is replied while an entry of the requester is exactly 24 hours
\* old; the entry is left out and is gone from the store
C2_Witness ==
    /\ DigestReplied
    /\ \E d \in Mine : AgeOf(d) = Expiry /\ d \notin store
    /\ \E d \in Mine : AgeOf(d) < Expiry

(* C3: with the set-up done, at most one handler runs, the first of /hello,
   /safada, /resumo, /r that is a prefix of the text: a text starting with
   /resumo runs the digest handler and adds no entry, a text starting with
   /r but not with /resumo runs the append handler. *)
C3_Routing ==
    (served /\ env.setup = "ok") =>
        /\ Len(ran) <= 1
        /\ HasPrefix(update.text, HelloTrigger) => ran = <<"handleHello">>
        /\ HasPrefix(update.text, SafadaTrigger) => ran = <<"handleSafada">>
        /\ HasPrefix(update.text, ResumoTrigger) =>
               /\ ran = <<"handleResumo">>
               /\ store \subseteq before
               /\ \A i \in 1..Len(outbox) :
                      HasPrefix(outbox[i].text, ResumoHeader)
        /\ (HasPrefix(update.text, AddTrigger)
               /\ ~HasPrefix(update.text, ResumoTrigger)) =>
               ran = <<"handleAddResumo">>

\* The text /resumoXYZ got the digest reply
C3_Witness ==
    /\ DigestReplied
    /\ update.text = ResumoTrigger \o <<"X", "Y", "Z">>
    /\ before # {}

----------------------------------------------------------------------------
(* Splitting on whitespace, as the specification words the append command:
   the fields of s are its maximal runs of non-whitespace characters. *)

IsSpace(c) == c \in {" ", "\n", "\t"}

RECURSIVE Fields(_)
Fields(s) ==
    IF s = <<>> THEN <<>>
    ELSE IF IsSpace(s[1]) THEN Fields(Tail(s))
    ELSE LET n == CHOOSE k \in 1..Len(s) :
                     /\ \A j \in 1..k : ~IsSpace(s[j])
                     /\ k = Len(s) \/ IsSpace(s[k + 1])
         IN  <<SubSeq(s, 1, n)>> \o Fields(SubSeq(s, n + 1, Len(s)))

HasSuffix(s, suffix) ==
    /\ Len(s) >= Len(suffix)
    /\ SubSeq(s, Len(s) - Len(suffix) + 1, Len(s)) = suffix

\* The entries of the requester that are younger than 24 hours
Live == {d \in Mine : AgeOf(d) < Expiry}

\* The body of the digest reply, and its lines
DigestBody == SubSeq(outbox[1].text, Len(ResumoHeader) + 1, Len(outbox[1].text))
BodyLines == IF DigestBody = <<>> THEN <<>> ELSE Split(DigestBody, "\n")

(* C4 as stated: an append command whose text has no whitespace-separated
   token after the trigger gets the rejection reply and leaves the store as
   it was. *)
C4_Claim ==
    (AppendServed /\ Len(Fields(update.text)) = 1) =>
        /\ Len(outbox) = 1
        /\ outbox[1].text = MissingReply
        /\ store = before

(* C5 as stated: an append command with a token after the trigger, whose
   write succeeds, adds exactly one entry, of the requester, whose text is
   the tokens after the trigger joined by single spaces, and the reply
   echoes that text. *)
C5_Claim ==
    (AppendServed /\ Len(Fields(update.text)) >= 2 /\ env.addOK) =>
        \E d \in store \ before :
            /\ store = before \cup {d}
            /\ d.ChatID = update.chatID
            /\ d.Message = Join(Tail(Fields(update.text)), <<" ">>)
            /\ Len(outbox) = 1
            /\ outbox[1].text = AddedPrefix \o d.Message

(* C6 as stated: in a digest reply every entry of the requester younger than
   24 hours has exactly one line, which ends with the entry's text; when the
   only such entry is less than a minute old the body is the single line
   annotated 0min. *)
C6_Claim ==
    DigestReplied =>
        /\ Len(BodyLines) = Cardinality(Live)
        /\ \A d \in Live :
               Cardinality({i \in 1..Len(BodyLines) :
                               /\ i <= Len(docs)
                               /\ docs[i].id = d.id
                               /\ HasSuffix(BodyLines[i], d.Message)}) = 1
        /\ \A d \in Live :
               (Live = {d} /\ AgeOf(d) < Minute) =>
                   DigestBody = LineOpen \o <<"0", "m", "i", "n">>
                                    \o LineClose \o d.Message

(* C7: the annotation of every digest line is that of an age from 0 up to,
   not including, 24 hours: with m the whole minutes of the age, <m>min
   when m < 60 and <m div 60>h<m mod 60>min otherwise; 45 minutes is
   written 45min and 90 minutes 1h30min.  makeTimeAgoString gives that
   annotation for every age below 24 hours (a fact about the function, which
   is evaluated only in the states where the clock has not moved). *)
Annotation(age) ==
    LET m == age \div Minute IN
    IF m < MinutesPerHour
    THEN FormatFloat0(m) \o <<"m", "i", "n">>
    ELSE FormatFloat0(m \div MinutesPerHour) \o <<"h">>
             \o FormatFloat0(m % MinutesPerHour) \o <<"m", "i", "n">>

AnnotatedLine(doc) ==
    LineOpen \o Annotation(doc.ReadTime - doc.CreateTime) \o LineClose
        \o doc.Message

C7_Annotations ==
    /\ DigestReplied =>
        /\ outbox[1].text =
               ResumoHeader
                   \o Join([i \in 1..Len(docs) |-> AnnotatedLine(docs[i])],
                           <<"\n">>)
        /\ \A i \in 1..Len(docs) :
               LET age == docs[i].ReadTime - docs[i].CreateTime IN
               /\ 0 <= age /\ age < Expiry
               /\ age = 45 * Minute =>
                      makeTimeAgoString(age) = <<"4", "5", "m", "i", "n">>
               /\ age = 90 * Minute =>
                      makeTimeAgoString(age) =
                          <<"1", "h", "3", "0", "m", "i", "n">>
    /\ (ticks = 0 /\ store = {}) =>
           \A age \in 0..(Expiry - 1) :
               makeTimeAgoString(age) = Annotation(age)

\* One digest with a line aged 45 minutes and a line aged 90 minutes
C7_Witness ==
    /\ DigestReplied
    /\ \E i, j \in 1..Len(docs) :
           /\ docs[i].ReadTime - docs[i].CreateTime = 90 * Minute
           /\ docs[j].ReadTime - docs[j].CreateTime = 45 * Minute

(* C8: the lines of a digest reply are those of the remaining entries in
   ascending order of creation time, whatever the order of the query. *)
C8_Ascending ==
    DigestReplied =>
        /\ outbox[1].text = DigestOf(docs)
        /\ {docs[i].id : i \in 1..Len(docs)} = {d.id : d \in Live}
        /\ \A i, j \in 1..Len(docs) :
               i < j => docs[i].CreateTime <= docs[j].CreateTime

\* The query returned the younger entry first; the digest has the older first
C8_Witness ==
    /\ DigestReplied
    /\ Len(docs) = 2
    /\ Len(env.order) = 2
    /\ env.order[1].CreateTime > env.order[2].CreateTime
    /\ docs[1].CreateTime < docs[2].CreateTime

(* C9 as stated: when the query of a digest ends without error the reply is
   sent; it is the header followed by one line for each remaining entry,
   one newline between two lines and none at the end; with no entry
   remaining it is the header alone. *)
C9_Claim ==
    (DigestServed /\ env.errAt = 0) =>
        /\ Len(outbox) = 1
        /\ HasPrefix(outbox[1].text, ResumoHeader)
        /\ Len(BodyLines) = Cardinality(Live)
        /\ \A i \in 1..Len(BodyLines) :
               i <= Len(docs) /\ BodyLines[i] = FormatLine(docs[i])
        /\ Live = {} => outbox[1].text = ResumoHeader
        /\ Live # {} => outbox[1].text[Len(outbox[1].text)] # "\n"

(* What holds of the digest reply whatever the stored texts are: it is the
   header, then the formatted string of each remaining entry, one newline
   between two of them and none after the last; the reply is the header
   alone when no entry remains. *)
DigestShape ==
    (DigestServed /\ env.errAt = 0) =>
        /\ Len(outbox) = 1
        /\ outbox[1].text = DigestOf(docs)
        /\ Len(docs) = Cardinality(Live)
        /\ Live = {} => outbox[1].text = ResumoHeader
        /\ docs # <<>> =>
               HasSuffix(outbox[1].text, FormatLine(docs[Len(docs)]))

\* A digest of two entries
DigestShapeWitness ==
    /\ DigestReplied
    /\ Len(docs) = 2
    /\ outbox[1].text =
           ResumoHeader \o FormatLine(docs[1]) \o <<"\n">>
               \o FormatLine(docs[2])

(* C10 as stated: every request whose set-up succeeds and that runs a
   handler calls the Notifier exactly once. *)
C10_Original ==
    (served /\ env.setup = "ok" /\ ran # <<>>) => Len(outbox) = 1

(* C10 amended: no request calls the Notifier more than once; a request
   whose set-up fails calls it zero times; a request that runs a handler
   calls it exactly once, except the digest handler when the iteration of
   the query fails, which returns without calling it. *)
C10_NotifierCalls ==
    served =>
        /\ Len(outbox) <= 1
        /\ env.setup # "ok" => outbox = <<>>
        /\ ran = <<>> => outbox = <<>>
        /\ (ran # <<>> /\ ~(DigestServed /\ env.errAt # 0)) => Len(outbox) = 1
        /\ (DigestServed /\ env.errAt # 0) => outbox = <<>>

\* A digest whose iteration failed after a deletion sent nothing
C10_Witness ==
    /\ DigestServed
    /\ env.errAt # 0
    /\ outbox = <<>>
    /\ store # before

----------------------------------------------------------------------------
\* The text of the request starts with none of the four triggers
Unmatched ==
    /\ ~HasPrefix(update.text, HelloTrigger)
    /\ ~HasPrefix(update.text, SafadaTrigger)
    /\ ~HasPrefix(update.text, ResumoTrigger)
    /\ ~HasPrefix(update.text, AddTrigger)

(* C11: a request whose text starts with none of /hello, /safada, /resumo,
   /r runs no handler, sends no reply and leaves the store as it was. *)
C11_Unmatched ==
    (served /\ Unmatched) =>
        /\ ran = <<>>
        /\ outbox = <<>>
        /\ docs = <<>>
        /\ store = before

\* The text /x was served, set-up done, with entries of the requester stored
C11_Witness ==
    /\ served
    /\ env.setup = "ok"
    /\ update.text = <<"/", "x">>
    /\ Mine # {}
    /\ store = before

----------------------------------------------------------------------------
(* Vocabulary of the properties of requests served at once *)

\* The instances that are serving a request
Busy == {p \in Instances : reqs[p].pc \notin {"idle", "done"}}

\* The number a decimal numeral stands for (the inverse of strconv.Itoa)
DigitValue(c) == CHOOSE d \in 0..9 : Digit(d) = c

RECURSIVE Unsigned(_)
Unsigned(s) ==
    IF s = <<>> THEN 0
    ELSE 10 * Unsigned(SubSeq(s, 1, Len(s) - 1)) + DigitValue(s[Len(s)])

Atoi(s) == IF s[1] = "-" THEN 0 - Unsigned(Tail(s)) ELSE Unsigned(s)

(* C12: whatever the interleaving of the requests served at once, the
   chat_id of every reply a request sends is the numeral of the chat id of
   the update that request received. *)
C12_OwnConversation ==
    \A p \in Instances :
        \A i \in 1..Len(reqs[p].outbox) :
            /\ reqs[p].outbox[i].chat_id = Itoa(reqs[p].update.chatID)
            /\ Atoi(reqs[p].outbox[i].chat_id) = reqs[p].update.chatID

\* Two requests of different conversations, served at once, have both
\* sent their reply
C12_Witness ==
    /\ Busy = Instances
    /\ reqs[1].update.chatID # reqs[2].update.chatID
    /\ \A p \in Instances : Len(reqs[p].outbox) = 1
    /\ reqs[1].outbox[1].chat_id # reqs[2].outbox[1].chat_id

(* C13: a request holds an open client from the end of its set-up to its
   return and at no other time: whichever way it leaves HandleMessage after
   the client was created (a handler ran, no prefix matched, the iteration
   or the write failed), the step that ends it closes the client, and no
   request is over with its client open. *)
C13_ClientState ==
    \A p \in Instances :
        /\ reqs[p].pc = "idle" => reqs[p].client = "none"
        /\ reqs[p].pc \in {"dispatch", "iterating", "deferred"} =>
               reqs[p].client = "open"
        /\ reqs[p].pc = "done" => reqs[p].client \in {"none", "closed"}

C13_ClosedAtReturn ==
    \A p \in Instances :
        (reqs[p].client = "open" /\ reqs'[p].pc \in {"done", "idle"}) =>
            /\ reqs[p].pc = "deferred"
            /\ reqs'[p].pc = "done"
            /\ reqs'[p].client = "closed"

C13_ClientClosed == []C13_ClientState /\ [][C13_ClosedAtReturn]_vars

\* One request is over with its client closed while another, whose
\* iteration failed, is about to return
C13_Witness ==
    \E p, q \in Instances :
        /\ reqs[p].pc = "done"
        /\ reqs[p].client = "closed"
        /\ reqs[q].pc = "deferred"
        /\ reqs[q].err

----------------------------------------------------------------------------
(* C14: when the Add of an append command fails, the request sends the
   failure reply and nothing else: there is no confirmation reply, and the
   store is as it was, no entry created. *)
C14_WriteFailure ==
    (AppendServed /\ ~env.addOK) =>
        /\ outbox = <<sendMessage(update.chatID, FailedReply)>>
        /\ \A i \in 1..Len(outbox) : ~HasPrefix(outbox[i].text, AddedPrefix)
        /\ store = before

\* An append with a text to add met a failing Add, other entries being stored
C14_Witness ==
    /\ AppendServed
    /\ ~env.addOK
    /\ Len(Split(update.text, " ")) > 1
    /\ Len(outbox) = 1
    /\ outbox[1].text = FailedReply
    /\ before # {}

(* C15: when a call of iter.Next fails during a digest request (the first
   call, when the query itself fails), the request sends no reply, and the
   store is the one it found less the expired entries of the requester that
   were handed out before the failure and whose Delete succeeded: what was
   deleted is not restored. *)
C15_IterationFailure ==
    (DigestServed /\ env.errAt # 0) =>
        /\ outbox = <<>>
        /\ store = {d \in before : d.id \notin env.delOK}
        /\ \A d \in before \ store :
               /\ d \in Mine
               /\ AgeOf(d) >= Expiry
               /\ \E i \in 1..(env.errAt - 1) : env.order[i].id = d.id

\* The second call of iter.Next failed after an expired entry was deleted,
\* a live entry being stored
C15_Witness ==
    /\ DigestServed
    /\ env.errAt = 2
    /\ outbox = <<>>
    /\ \E d \in Mine : d \notin store /\ AgeOf(d) >= Expiry
    /\ \E d \in Mine : d \in store /\ AgeOf(d) < Expiry

\* The expired entries of the requester whose Delete failed in the digest
\* request just served
Undeleted == {d \in Mine : AgeOf(d) >= Expiry /\ d.id \notin env.delOK}

(* C16: when the Delete of an expired entry fails during a digest request
   whose iteration does not fail, the digest is built and sent all the
   same: the reply is the digest of the entries younger than 24 hours, the
   expired entry is not in it, and it is still stored. *)
C16_DeleteFailure ==
    (DigestServed /\ env.errAt = 0 /\ Undeleted # {}) =>
        /\ Len(outbox) = 1
        /\ outbox[1].text = DigestOf(docs)
        /\ {docs[i].id : i \in 1..Len(docs)} = {d.id : d \in Live}
        /\ \A d \in Undeleted :
               /\ \A i \in 1..Len(docs) : docs[i].id # d.id
               /\ d \in store

\* A digest with a line was sent although the Delete of an expired entry
\* failed
C16_Witness ==
    /\ DigestReplied
    /\ Undeleted # {}
    /\ Len(docs) = 1
    /\ Undeleted \subseteq store

(* C17: no request updates an entry in place: an entry that is stored
   after a request and was stored before it (same document id) has the
   conversation id, the text and the creation time it had, and no two
   stored entries share an id.  A request changes the store only by adding
   one new entry (the append handler: the entry of the requester, created
   at the time of the request) or by deleting entries (the digest
   handler); outside requests the store does not change. *)
C17_Immutable ==
    /\ \A d1, d2 \in store : d1.id = d2.id => d1 = d2
    /\ served =>
        /\ \A d \in store : \A b \in before : d.id = b.id => d = b
        /\ store # before =>
               \/ /\ AppendServed
                  /\ \E d \in store \ before :
                         /\ store = before \cup {d}
                         /\ \A b \in before : b.id # d.id
                         /\ d.ChatID = update.chatID
                         /\ d.CreateTime = now
               \/ /\ DigestServed
                  /\ store \subseteq before

\* An append by a conversation that had an entry already: both are stored
C17_Witness ==
    /\ AppendServed
    /\ Mine # {}
    /\ Mine \subseteq store
    /\ store # before
    /\ \E d \in Mine : d.CreateTime < now

(* C18: a request whose text starts with /hello, or with /safada, and
   whose set-up is done sends one reply, the constant of the handler
   whatever follows the trigger, and touches no entry: no document is
   iterated, none is added, none is deleted, and the store is as it was. *)
C18_Greetings ==
    (served /\ env.setup = "ok") =>
        /\ HasPrefix(update.text, HelloTrigger) =>
               /\ ran = <<"handleHello">>
               /\ outbox = <<sendMessage(update.chatID, HelloReply)>>
        /\ HasPrefix(update.text, SafadaTrigger) =>
               /\ ran = <<"handleSafada">>
               /\ outbox = <<sendMessage(update.chatID, SafadaReply)>>
        /\ (ran = <<"handleHello">> \/ ran = <<"handleSafada">>) =>
               /\ env.order = <<>>
               /\ docs = <<>>
               /\ store = before

\* /hello followed by a text got hello! and left the expired entry of the
\* requester in the store
C18_Witness ==
    /\ served
    /\ update.text = HelloTrigger \o <<" ", "a">>
    /\ Len(outbox) = 1
    /\ outbox[1].text = HelloReply
    /\ \E d \in Mine : AgeOf(d) >= Expiry /\ d \in store

(* C19: a digest request of conversation C takes out of the store only
   entries of C that are 24 hours old or older (those whose Delete
   succeeded); every entry of C younger than 24 hours and every entry of
   another conversation, the expired ones included, is stored afterwards
   as it was. *)
C19_DigestFrame ==
    DigestServed =>
        /\ store \subseteq before
        /\ \A d \in before \ store :
               /\ d.ChatID = update.chatID
               /\ AgeOf(d) >= Expiry
               /\ d.id \in env.delOK
        /\ \A d \in Live : d \in store
        /\ \A d \in before : d.ChatID # update.chatID => d \in store

\* A digest deleted the expired entry of the requester and left the
\* expired entry of the other conversation
C19_Witness ==
    /\ DigestServed
    /\ \E d \in Mine : AgeOf(d) >= Expiry /\ d \notin store
    /\ \E d \in before :
           /\ d.ChatID # update.chatID
           /\ AgeOf(d) >= Expiry
           /\ d \in store

----------------------------------------------------------------------------
\* The instances that are serving a digest request
Digesting == {p \in Busy : reqs[p].ran = <<"handleResumo">>}

(* C20: in every interleaving of the datastore calls of the requests served
   at once, a digest whose iter.Next calls return no error sends its reply,
   the digest of the documents it kept, whatever the other request deleted
   or added meanwhile; every document a digest keeps was younger than 24
   hours when its query read it; and every step that takes an entry out of
   the store takes out an entry that is 24 hours old or older and leaves
   the others as they were. *)
C20_Digests ==
    \A p \in Digesting :
        /\ \A i \in 1..Len(reqs[p].docs) :
               reqs[p].docs[i].ReadTime - reqs[p].docs[i].CreateTime < Expiry
        /\ (reqs[p].pc = "deferred" /\ ~reqs[p].err) =>
               /\ Len(reqs[p].outbox) = 1
               /\ reqs[p].outbox[1].text = DigestOf(reqs[p].docs)
        /\ reqs[p].err => reqs[p].outbox = <<>>

C20_NoneLost ==
    /\ \A d \in store \ store' : now - d.CreateTime >= Expiry
    /\ \A d \in store : now - d.CreateTime < Expiry => d \in store'

C20_Interleaving == []C20_Digests /\ [][C20_NoneLost]_vars

\* Two digests of one conversation are served at once: one has sent its
\* reply with a line for an entry that the other, whose query read it 24
\* hours old, has deleted meanwhile
C20_Witness ==
    \E p, q \in Digesting :
        /\ p # q
        /\ reqs[p].update.chatID = reqs[q].update.chatID
        /\ reqs[q].pc = "deferred"
        /\ Len(reqs[q].outbox) = 1
        /\ \E i \in 1..Len(reqs[q].docs) :
               \A d \in store : d.id # reqs[q].docs[i].id

====
